---- MODULE Spec2Model ----
(***************************************************************************)
(* A model of the resume server (backend/servers/resume_server.py) and the *)
(* job server (backend/servers/job_server.py): the two flat-file stores,   *)
(* the write handlers (upload_resume, post_job), the match handlers        *)
(* (match_candidates, match_jobs) and the insight handlers; and of the     *)
(* aggregator (backend/servers/aggregator_server.py): the query router and *)
(* handle_chat_query.                                                      *)
(*                                                                         *)
(* Python's None and its other falsy values of the same field are one      *)
(* value here, because the handlers only test truthiness:                  *)
(*   NoOwner  ""    stands for exclude_user_id None or ""                  *)
(*   NoEmbedding <<>>  stands for embedding None or []                     *)
(* A response body is a record whose DOMAIN is the set of keys of the      *)
(* returned dict, so a missing key is a missing field.                     *)
(***************************************************************************)
EXTENDS Integers, Sequences, FiniteSets, TLC

VARIABLES
    resumes_file,   \* contents of data/resumes.json: a sequence of Resume
    jobs_file,      \* contents of data/jobs.json: a sequence of JobPosting
    uuids,          \* number of uuid4() values issued so far
    req,            \* the request of the handler that ran last
    resp,           \* the response of the handler that ran last
    lastUpload,     \* history: user_id -> the Resume of that user's latest upload
    posted,         \* history: the post_job calls made, in order
    pc,             \* interleaved upload_resume requests: position of each
    work,           \* interleaved upload_resume requests: the Resume each built
    loaded,         \* interleaved upload_resume requests: the local list `resumes`
    users,          \* MockAuth.users: email -> the registered user
    sessions,       \* MockAuth.sessions: session token -> the user logged in
    issued          \* history: what register_user and login_user returned

\* the MockAuth instance and the history of its successful calls
auth == <<users, sessions, issued>>

vars == <<resumes_file, jobs_file, uuids, req, resp, lastUpload, posted, pc, work, loaded,
          users, sessions, issued>>

----------------------------------------------------------------------------
(* Bounds *)

\* uuid4() values issued in one behaviour, records on disk at start included
MaxRecords == 3
\* top_k ranges over -MaxTopK .. MaxTopK
MaxTopK == 2

Users == {"u1", "u2"}
NoOwner == ""
\* two single-line texts
Texts == {<<"b", "a", "c", "k", "e", "n", "d">>,
          <<"f", "u", "l", "l", "s", "t", "a", "c", "k">>}
NoEmbedding == <<>>
TopKs == (0 - MaxTopK) .. MaxTopK
Workers == {1, 2}

----------------------------------------------------------------------------
(* Strings.  A string on which the code tests `word in text` is a sequence *)
(* of one-character strings, so that the test is a substring test.         *)

UpperCase == <<"A", "B", "C", "D", "E", "F", "G", "H", "I", "J", "K", "L", "M",
               "N", "O", "P", "Q", "R", "S", "T", "U", "V", "W", "X", "Y", "Z">>
LowerCase == <<"a", "b", "c", "d", "e", "f", "g", "h", "i", "j", "k", "l", "m",
               "n", "o", "p", "q", "r", "s", "t", "u", "v", "w", "x", "y", "z">>

IsUpper(c) == \E i \in 1..Len(UpperCase) : UpperCase[i] = c
IsLower(c) == \E i \in 1..Len(LowerCase) : LowerCase[i] = c

LowerChar(c) ==
    IF IsUpper(c) THEN LowerCase[CHOOSE i \in 1..Len(UpperCase) : UpperCase[i] = c] ELSE c
UpperChar(c) ==
    IF IsLower(c) THEN UpperCase[CHOOSE i \in 1..Len(LowerCase) : LowerCase[i] = c] ELSE c

\* str.lower()
lower(s) == [i \in 1..Len(s) |-> LowerChar(s[i])]

\* `word in text`
Contains(text, word) ==
    \E i \in 1..(Len(text) - Len(word) + 1) : SubSeq(text, i, i + Len(word) - 1) = word

\* any(word in text for word in words)
any_in(text, words) == \E k \in 1..Len(words) : Contains(text, words[k])

\* " ".join(parts)
RECURSIVE join(_)
join(parts) ==
    IF parts = <<>> THEN <<>>
    ELSE IF Len(parts) = 1 THEN parts[1]
    ELSE parts[1] \o <<" ">> \o join(Tail(parts))

----------------------------------------------------------------------------
(* The embedding model and the similarity *)

\* model.encode(text): a deterministic map from a text to a vector of fixed
\* dimension (here 2).
encode(text) ==
    IF Contains(text, <<"b", "a", "c", "k", "e", "n", "d">>) THEN <<1, 0>> ELSE <<1, 1>>

Dot(a, b) == a[1] * b[1] + a[2] * b[2]

Sgn(x) == IF x > 0 THEN 1 ELSE IF x < 0 THEN 0 - 1 ELSE 0

\* cosine_similarity([a], [b])[0][0] = Dot(a,b) / (|a| |b|).  The score is
\* kept as 4 * sgn(c) * c^2, an integer for the vectors of encode and
\* strictly increasing in the cosine c, so that the order of two scores and
\* their equality are those of the cosines.
cosine_similarity(a, b) ==
    (4 * Sgn(Dot(a, b)) * Dot(a, b) * Dot(a, b)) \div (Dot(a, a) * Dot(b, b))

----------------------------------------------------------------------------
(* Python list operations used by the handlers *)

Min(a, b) == IF a <= b THEN a ELSE b
Max(a, b) == IF a >= b THEN a ELSE b

\* lst[:k]
SliceOneMore(lst, k) ==
    IF k >= 0 THEN SubSeq(lst, 1, Min(k + 1, Len(lst)))
              ELSE SubSeq(lst, 1, Max(Len(lst) + k, 0))
Slice(lst, k) ==
    IF k >= 0 THEN SubSeq(lst, 1, Min(k, Len(lst)))
              ELSE SubSeq(lst, 1, Max(Len(lst) + k, 0))

\* One insertion of list.sort(key = similarity_score, reverse = True): the
\* sort is stable, also under reverse = True, so an entry goes after every
\* entry whose score is greater than or equal to its own.
InsertBeforeEqual(sorted, m) ==
    LET before == SelectSeq(sorted, LAMBDA x: x.similarity_score > m.similarity_score)
        after  == SelectSeq(sorted, LAMBDA x: x.similarity_score <= m.similarity_score)
    IN  before \o <<m>> \o after
InsertDesc(sorted, m) ==
    LET before == SelectSeq(sorted, LAMBDA x: x.similarity_score >= m.similarity_score)
        after  == SelectSeq(sorted, LAMBDA x: x.similarity_score < m.similarity_score)
    IN  before \o <<m>> \o after

RECURSIVE sort_desc(_)
sort_desc(matches) ==
    IF matches = <<>> THEN <<>>
    ELSE InsertDesc(sort_desc(SubSeq(matches, 1, Len(matches) - 1)),
                    matches[Len(matches)])

----------------------------------------------------------------------------
(* The stores *)

load_resumes == resumes_file
load_jobs == jobs_file

\* `if resume.embedding:` / `if job.embedding:`
HasEmbedding(r) == r.embedding # NoEmbedding

\* parse_resume_text(text), its skills, experience and education.  A text
\* without "\n" is one line: a line that names a section only opens the
\* section, and any other line is read while no section is open, so nothing
\* is collected: skills is ["General"], experience and education are "".
parse_resume_text(text) ==
    [skills |-> <<"General">>, experience |-> <<>>, education |-> <<>>]

\* Resume(id = uuid4, user_id, skills, experience, education, raw_text,
\* embedding = encode(raw_text))
NewResume(id, user_id, raw_text) ==
    [id |-> id, user_id |-> user_id,
     skills |-> parse_resume_text(raw_text).skills,
     experience |-> parse_resume_text(raw_text).experience,
     education |-> parse_resume_text(raw_text).education,
     raw_text |-> raw_text,
     embedding |-> encode(raw_text)]

\* JobSubmission: the postings submitted have an empty title and no
\* requirements, one company and one location, and the default job_type.
JobSubmissions ==
    [employer_id : Users, title : {<<>>}, company : {"Acme"},
     description : Texts, requirements : {<<>>}, location : {"Remote"},
     job_type : {"Full-time"}]

\* job_text = f"{title} {description} {' '.join(requirements)}"
job_text(job_data) ==
    job_data.title \o <<" ">> \o job_data.description \o <<" ">>
        \o join(job_data.requirements)

\* JobPosting(id = uuid4, employer_id, title, company, description,
\* requirements, location, job_type, embedding = encode(job_text))
NewJob(id, job_data) ==
    [id |-> id, employer_id |-> job_data.employer_id, title |-> job_data.title,
     company |-> job_data.company, description |-> job_data.description,
     requirements |-> job_data.requirements, location |-> job_data.location,
     job_type |-> job_data.job_type,
     embedding |-> encode(job_text(job_data))]

\* resumes = [r for r in resumes if r.user_id != user_id]
KeepAll(resumes, user_id) == resumes
remove_existing_reversed(resumes, user_id) ==
    LET kept == SelectSeq(resumes, LAMBDA r: r.user_id # user_id)
    IN  [i \in 1..Len(kept) |-> kept[Len(kept) + 1 - i]]
remove_existing(resumes, user_id) ==
    SelectSeq(resumes, LAMBDA r: r.user_id # user_id)

\* jobs = [j for j in jobs if j.employer_id != exclude_employer_id]
without_employer(jobs, employer_id) ==
    SelectSeq(jobs, LAMBDA j: j.employer_id # employer_id)

NoWork == [id |-> 0, user_id |-> NoOwner, raw_text |-> <<>>, embedding |-> NoEmbedding]
NoReq == [op |-> "none"]
NoResp == [op |-> "none", body |-> [message |-> "none"]]

Files == [is_pdf : BOOLEAN, text : Texts]

----------------------------------------------------------------------------
(* The insight snapshots: the aggregation both insight handlers do *)

\* str.title(): a letter is upper-cased when it starts the string or follows
\* a character that is not a letter, and lower-cased otherwise.
title(s) ==
    [i \in 1..Len(s) |->
        IF i = 1 \/ ~(IsUpper(s[i - 1]) \/ IsLower(s[i - 1]))
        THEN UpperChar(s[i]) ELSE LowerChar(s[i])]

common_skills ==
    <<<<"p","y","t","h","o","n">>,
      <<"j","a","v","a">>,
      <<"j","a","v","a","s","c","r","i","p","t">>,
      <<"r","e","a","c","t">>,
      <<"n","o","d","e",".","j","s">>,
      <<"s","q","l">>,
      <<"a","w","s">>,
      <<"d","o","c","k","e","r">>,
      <<"k","u","b","e","r","n","e","t","e","s">>,
      <<"g","i","t">>,
      <<"m","a","c","h","i","n","e"," ","l","e","a","r","n","i","n","g">>,
      <<"d","a","t","a"," ","a","n","a","l","y","s","i","s">>,
      <<"p","r","o","j","e","c","t"," ","m","a","n","a","g","e","m","e","n","t">>,
      <<"c","o","m","m","u","n","i","c","a","t","i","o","n">>,
      <<"l","e","a","d","e","r","s","h","i","p">>,
      <<"p","r","o","b","l","e","m"," ","s","o","l","v","i","n","g">>,
      <<"t","e","a","m","w","o","r","k">>,
      <<"a","g","i","l","e">>,
      <<"s","c","r","u","m">>>>

\* extract_skills_from_job(description, requirements)
extract_skills_from_description(description, requirements) ==
    LET text == lower(description)
        found_skills == SelectSeq(common_skills, LAMBDA skill: Contains(text, skill))
    IN  [i \in 1..Len(found_skills) |-> title(found_skills[i])]
extract_skills_from_job(description, requirements) ==
    LET text == lower(description \o <<" ">> \o join(requirements))
        found_skills == SelectSeq(common_skills, LAMBDA skill: Contains(text, skill))
    IN  [i \in 1..Len(found_skills) |-> title(found_skills[i])]

\* lst.extend(...) over a list of lists
RECURSIVE extend_all(_)
extend_all(lists) ==
    IF lists = <<>> THEN <<>>
    ELSE extend_all(SubSeq(lists, 1, Len(lists) - 1)) \o lists[Len(lists)]

\* The keys of `counts` after the loop `counts[x] = counts.get(x, 0) + 1`: a
\* dict keeps its keys in insertion order, so each label is at the place of
\* its first occurrence.
RECURSIVE first_seen(_)
first_seen(labels) ==
    IF labels = <<>> THEN <<>>
    ELSE LET keys == first_seen(SubSeq(labels, 1, Len(labels) - 1))
             x == labels[Len(labels)]
         IN  IF \E i \in 1..Len(keys) : keys[i] = x THEN keys ELSE Append(keys, x)

\* counts[x] after the loop
count_of(labels, x) == Cardinality({i \in 1..Len(labels) : labels[i] = x})

\* One insertion of sorted(counts.items(), key = count, reverse = True): the
\* sort is stable, also under reverse = True.
InsertByCountBeforeEqual(sorted, item) ==
    LET before == SelectSeq(sorted, LAMBDA x: x.count > item.count)
        after  == SelectSeq(sorted, LAMBDA x: x.count <= item.count)
    IN  before \o <<item>> \o after
InsertByCount(sorted, item) ==
    LET before == SelectSeq(sorted, LAMBDA x: x.count >= item.count)
        after  == SelectSeq(sorted, LAMBDA x: x.count < item.count)
    IN  before \o <<item>> \o after

RECURSIVE sorted_by_count(_)
sorted_by_count(items) ==
    IF items = <<>> THEN <<>>
    ELSE InsertByCount(sorted_by_count(SubSeq(items, 1, Len(items) - 1)),
                       items[Len(items)])

\* the display limit of the label lists: [:10]
DisplayLimit == 10

\* counts = {}; for x in labels: counts[x] = counts.get(x, 0) + 1
\* top = sorted(counts.items(), key=lambda x: x[1], reverse=True)[:10]
\* [x[0] for x in top]
top_labels(labels) ==
    LET keys == first_seen(labels)
        items == [i \in 1..Len(keys) |->
                     [label |-> keys[i], count |-> count_of(labels, keys[i])]]
        top == Slice(sorted_by_count(items), DisplayLimit)
    IN  [i \in 1..Len(top) |-> top[i].label]

\* list(set(labels)): the distinct labels in the order the set iterates
\* them.  That order depends on the hash of each string, which changes from
\* one start of the interpreter to the next, so any order can come out.
list_of_set(set) ==
    {order \in [1..Cardinality(set) -> set] :
        \A i, j \in 1..Cardinality(set) : i # j => order[i] # order[j]}

senior_words ==
    <<<<"s","e","n","i","o","r">>,
      <<"l","e","a","d">>,
      <<"m","a","n","a","g","e","r">>,
      <<"d","i","r","e","c","t","o","r">>>>
mid_words ==
    <<<<"y","e","a","r","s">>,
      <<"e","x","p","e","r","i","e","n","c","e">>>>
entry_words ==
    <<<<"e","n","t","r","y">>,
      <<"j","u","n","i","o","r">>,
      <<"i","n","t","e","r","n">>>>

\* the bucket of one resume in experience_levels
experience_level_mid_first(experience) ==
    LET exp_text == lower(experience)
    IN  IF any_in(exp_text, mid_words) /\ ~any_in(exp_text, entry_words)
        THEN "Mid"
        ELSE IF any_in(exp_text, senior_words) THEN "Senior"
        ELSE "Entry"
experience_level(experience) ==
    LET exp_text == lower(experience)
    IN  IF any_in(exp_text, senior_words) THEN "Senior"
        ELSE IF any_in(exp_text, mid_words) /\ ~any_in(exp_text, entry_words)
        THEN "Mid"
        ELSE "Entry"

\* resume.education[:50] + "..." if len(resume.education) > 50 else resume.education
EducationLimit == 50
education_label(education) ==
    IF Len(education) > EducationLimit
    THEN SubSeq(education, 1, EducationLimit) \o <<".", ".", ".">>
    ELSE education

\* the set that education_backgrounds lists
education_set(resumes) ==
    {education_label(resumes[i].education) :
        i \in {j \in 1..Len(resumes) : resumes[j].education # <<>>}}

\* The ResumeInsight that get_resume_insights returns for the resumes it
\* loaded, `backgrounds` being list(set(...)) of the education labels.
resume_insight_always_aggregated(resumes, backgrounds) ==
    [total_resumes |-> Len(resumes),
     top_skills |->
         top_labels(extend_all([i \in 1..Len(resumes) |-> resumes[i].skills])),
     experience_levels |->
         [level \in {"Entry", "Mid", "Senior"} |->
             Cardinality({i \in 1..Len(resumes) :
                             experience_level(resumes[i].experience) = level})],
     education_backgrounds |-> Slice(backgrounds, DisplayLimit)]
resume_insight(resumes, backgrounds) ==
    IF resumes = <<>>
    THEN [total_resumes |-> 0, top_skills |-> <<>>, experience_levels |-> <<>>,
          education_backgrounds |-> <<>>]
    ELSE [total_resumes |-> Len(resumes),
          top_skills |->
              top_labels(extend_all([i \in 1..Len(resumes) |-> resumes[i].skills])),
          experience_levels |->
              [level \in {"Entry", "Mid", "Senior"} |->
                  Cardinality({i \in 1..Len(resumes) :
                                  experience_level(resumes[i].experience) = level})],
          education_backgrounds |-> Slice(backgrounds, DisplayLimit)]

\* the set that locations lists
location_set(jobs) == {jobs[i].location : i \in 1..Len(jobs)}

\* The JobInsight that get_job_insights returns for the jobs it loaded,
\* `places` being list(set(...)) of the locations.
job_insight(jobs, places) ==
    IF jobs = <<>>
    THEN [total_jobs |-> 0, top_companies |-> <<>>, popular_skills |-> <<>>,
          job_types |-> <<>>, locations |-> <<>>]
    ELSE [total_jobs |-> Len(jobs),
          top_companies |-> top_labels([i \in 1..Len(jobs) |-> jobs[i].company]),
          popular_skills |->
              top_labels(extend_all(
                  [i \in 1..Len(jobs) |->
                      extract_skills_from_job(jobs[i].description,
                                              jobs[i].requirements)])),
          job_types |->
              [t \in {jobs[i].job_type : i \in 1..Len(jobs)} |->
                  Cardinality({i \in 1..Len(jobs) : jobs[i].job_type = t})],
          locations |-> Slice(places, DisplayLimit)]

----------------------------------------------------------------------------
(* resume_server.py: the handlers, each run to completion (an `async def`  *)
(* without an await is one step of the server's event loop).  A handler    *)
(* leaves its request and its response in req and resp; send_response      *)
(* hands the response to the caller and the next request can be taken.     *)

Idle == \A w \in Workers : pc[w] = "idle"

Ready == Idle /\ resp = NoResp

\* `return {...}`: the response leaves the server
send_response ==
    /\ resp # NoResp
    /\ req' = NoReq
    /\ resp' = NoResp
    /\ UNCHANGED <<auth, resumes_file, jobs_file, uuids, lastUpload, posted, pc, work, loaded>>

upload_resume ==
    \E user_id \in Users, file \in Files :
        /\ Ready
        /\ uuids < MaxRecords
        /\ req' = [op |-> "upload_resume", user_id |-> user_id, file |-> file]
        /\ IF ~file.is_pdf
           THEN /\ resp' = [op |-> "upload_resume",
                            body |-> [status_code |-> 400,
                                      detail |-> "Only PDF files are supported"]]
                /\ UNCHANGED <<resumes_file, uuids, lastUpload>>
           ELSE LET resume == NewResume(uuids + 1, user_id, file.text)
                    resumes == Append(remove_existing(load_resumes, user_id), resume)
                IN  /\ resumes_file' = resumes
                    /\ uuids' = uuids + 1
                    /\ lastUpload' = [lastUpload EXCEPT ![user_id] = resume]
                    /\ resp' = [op |-> "upload_resume",
                                body |-> [message |-> "Resume uploaded successfully",
                                          resume_id |-> resume.id]]
        /\ UNCHANGED <<auth, jobs_file, posted, pc, work, loaded>>

\* resumes = [r for r in resumes if r.user_id != request.exclude_user_id]
without_user(resumes, user_id) ==
    SelectSeq(resumes, LAMBDA r: r.user_id # user_id)

\* the loop over the kept resumes: one entry per resume with an embedding.
\* name, skills and experience_snippet of an entry are fields of the resume
\* whose id is resume_id.
score_everyone(resumes, job_embedding) ==
    [i \in 1..Len(resumes) |->
        [resume_id |-> resumes[i].id,
         similarity_score |->
            IF HasEmbedding(resumes[i])
            THEN cosine_similarity(job_embedding, resumes[i].embedding) ELSE 0]]
score_resumes(resumes, job_embedding) ==
    LET embedded == SelectSeq(resumes, HasEmbedding)
    IN  [i \in 1..Len(embedded) |->
            [resume_id |-> embedded[i].id,
             similarity_score |->
                cosine_similarity(job_embedding, embedded[i].embedding)]]

match_candidates_response(request) ==
    LET resumes == load_resumes
    IN  IF resumes = <<>>
        THEN [matches |-> <<>>, message |-> "No resumes available"]
        ELSE LET kept == IF request.exclude_user_id # NoOwner
                         THEN without_user(resumes, request.exclude_user_id)
                         ELSE resumes
                 matches == sort_desc(score_resumes(kept, encode(request.job_description)))
             IN  [matches |-> Slice(matches, request.top_k),
                  total_candidates |-> Len(kept)]

MatchRequests(op) ==
    {[op |-> op, text |-> t, top_k |-> k, exclude |-> x] :
        t \in Texts, k \in TopKs, x \in Users \cup {NoOwner}}

match_candidates_saving_kept ==
    \E r \in MatchRequests("match_candidates") :
        LET request == [job_description |-> r.text, top_k |-> r.top_k,
                        exclude_user_id |-> r.exclude]
        IN  /\ Ready
            /\ req' = r
            /\ resp' = [op |-> "match_candidates",
                        body |-> match_candidates_response(request)]
            /\ resumes_file' = IF r.exclude # NoOwner
                               THEN without_user(load_resumes, r.exclude)
                               ELSE load_resumes
            /\ UNCHANGED <<auth, jobs_file, uuids, lastUpload, posted, pc, work, loaded>>
match_candidates ==
    \E r \in MatchRequests("match_candidates") :
        LET request == [job_description |-> r.text, top_k |-> r.top_k,
                        exclude_user_id |-> r.exclude]
        IN  /\ Ready
            /\ req' = r
            /\ resp' = [op |-> "match_candidates",
                        body |-> match_candidates_response(request)]
            /\ UNCHANGED <<auth, resumes_file, jobs_file, uuids, lastUpload, posted,
                           pc, work, loaded>>

get_resume_insights ==
    LET resumes == load_resumes
    IN  \E backgrounds \in list_of_set(education_set(resumes)) :
            /\ Ready
            /\ req' = [op |-> "get_resume_insights"]
            /\ resp' = [op |-> "get_resume_insights",
                        body |-> resume_insight(resumes, backgrounds)]
            /\ UNCHANGED <<auth, resumes_file, jobs_file, uuids, lastUpload, posted,
                           pc, work, loaded>>

----------------------------------------------------------------------------
(* job_server.py: the handlers *)

post_job_replacing ==
    \E job_data \in JobSubmissions :
        LET job == NewJob(uuids + 1, job_data)
            jobs == Append(without_employer(load_jobs, job_data.employer_id), job)
        IN  /\ Ready
            /\ uuids < MaxRecords
            /\ req' = [op |-> "post_job", job_data |-> job_data]
            /\ jobs_file' = jobs
            /\ uuids' = uuids + 1
            /\ posted' = Append(posted, job)
            /\ resp' = [op |-> "post_job",
                        body |-> [message |-> "Job posted successfully",
                                  job_id |-> job.id]]
            /\ UNCHANGED <<auth, resumes_file, lastUpload, pc, work, loaded>>
post_job ==
    \E job_data \in JobSubmissions :
        LET job == NewJob(uuids + 1, job_data)
            jobs == Append(load_jobs, job)
        IN  /\ Ready
            /\ uuids < MaxRecords
            /\ req' = [op |-> "post_job", job_data |-> job_data]
            /\ jobs_file' = jobs
            /\ uuids' = uuids + 1
            /\ posted' = Append(posted, job)
            /\ resp' = [op |-> "post_job",
                        body |-> [message |-> "Job posted successfully",
                                  job_id |-> job.id]]
            /\ UNCHANGED <<auth, resumes_file, lastUpload, pc, work, loaded>>

score_jobs(jobs, resume_embedding) ==
    LET embedded == SelectSeq(jobs, HasEmbedding)
    IN  [i \in 1..Len(embedded) |->
            [job_id |-> embedded[i].id,
             similarity_score |->
                cosine_similarity(resume_embedding, embedded[i].embedding)]]

match_jobs_response(request) ==
    LET jobs == load_jobs
    IN  IF jobs = <<>>
        THEN [matches |-> <<>>, message |-> "No jobs available"]
        ELSE LET kept == IF request.exclude_employer_id # NoOwner
                         THEN without_employer(jobs, request.exclude_employer_id)
                         ELSE jobs
                 matches == sort_desc(score_jobs(kept, encode(request.resume_text)))
             IN  [matches |-> Slice(matches, request.top_k),
                  total_jobs |-> Len(kept)]

match_jobs ==
    \E r \in MatchRequests("match_jobs") :
        LET request == [resume_text |-> r.text, top_k |-> r.top_k,
                        exclude_employer_id |-> r.exclude]
        IN  /\ Ready
            /\ req' = r
            /\ resp' = [op |-> "match_jobs", body |-> match_jobs_response(request)]
            /\ UNCHANGED <<auth, resumes_file, jobs_file, uuids, lastUpload, posted,
                           pc, work, loaded>>

get_job_insights ==
    LET jobs == load_jobs
    IN  \E places \in list_of_set(location_set(jobs)) :
            /\ Ready
            /\ req' = [op |-> "get_job_insights"]
            /\ resp' = [op |-> "get_job_insights",
                        body |-> job_insight(jobs, places)]
            /\ UNCHANGED <<auth, resumes_file, jobs_file, uuids, lastUpload, posted,
                           pc, work, loaded>>

----------------------------------------------------------------------------
(* MockAuth (mcp_client.py): the in-memory registry of users and sessions *)
(* behind auth_service.  A dict is a function on its keys; an f-string is  *)
(* the concatenation of its pieces, numbers in decimal.                    *)

\* logins the model lets succeed in one behaviour
MaxSessions == 3

Emails == {"a@x.org", "b@x.org"}
Passwords == {"pw1", "pw2"}
AccountTypes == {"job_seeker", "employer"}

\* nothing returned yet by register_user or login_user
NoneIssued == [user_ids |-> <<>>, logins |-> <<>>]

\* len(d) of a dict d
len(d) == Cardinality(DOMAIN d)

\* f"user_{len(self.users) + 1}"
new_user_id(registered) == "user_" \o ToString(len(registered) + 1)

\* a token that names the user only
session_token_of_user(user, open_sessions) == "session_" \o user.user_id

\* f"session_{user['user_id']}_{len(self.sessions)}"
session_token(user, open_sessions) ==
    "session_" \o user.user_id \o "_" \o ToString(len(open_sessions))

\* the dict stored in self.sessions and returned as "user" by login_user
session_user(user, email) ==
    [user_id |-> user.user_id, email |-> email, user_type |-> user.user_type]

\* the tokens validate_session is asked about: every token login_user can
\* issue here, issued or not, and two strings it never issues
Tokens ==
    {"session_" \o "user_" \o ToString(k) \o "_" \o ToString(n) :
        k \in 1..Cardinality(Emails), n \in 0..(MaxSessions - 1)}
    \cup {"", "session_user_1"}

StoresUntouched ==
    UNCHANGED <<resumes_file, jobs_file, uuids, lastUpload, posted, pc, work, loaded>>

register_user ==
    \E email \in Emails, password \in Passwords, user_type \in AccountTypes :
        /\ req' = [op |-> "register_user", email |-> email,
                   password |-> password, user_type |-> user_type]
        /\ IF email \in DOMAIN users
           THEN /\ resp' = [op |-> "register_user",
                            body |-> [success |-> FALSE,
                                      error |-> "User already exists"]]
                /\ UNCHANGED auth
           ELSE LET user_id == new_user_id(users)
                IN  /\ users' = (email :> [user_id |-> user_id,
                                           email |-> email,
                                           password |-> password,
                                           user_type |-> user_type,
                                           created_at |-> "2024-01-01"]) @@ users
                    /\ issued' = [issued EXCEPT !.user_ids = Append(@, user_id)]
                    /\ resp' = [op |-> "register_user",
                                body |-> [success |-> TRUE, user_id |-> user_id]]
                    /\ UNCHANGED sessions
        /\ StoresUntouched

login_user ==
    /\ len(sessions) < MaxSessions
    /\ \E email \in Emails, password \in Passwords :
        /\ req' = [op |-> "login_user", email |-> email, password |-> password]
        /\ IF email \notin DOMAIN users
           THEN /\ resp' = [op |-> "login_user",
                            body |-> [success |-> FALSE, error |-> "User not found"]]
                /\ UNCHANGED auth
           ELSE LET user == users[email]
                IN  IF user.password # password
                    THEN /\ resp' = [op |-> "login_user",
                                     body |-> [success |-> FALSE,
                                               error |-> "Invalid password"]]
                         /\ UNCHANGED auth
                    ELSE LET token == session_token(user, sessions)
                         IN  /\ sessions' = (token :> session_user(user, email))
                                            @@ sessions
                             /\ issued' = [issued EXCEPT !.logins =
                                    Append(@, [session_token |-> token,
                                               user |-> session_user(user, email)])]
                             /\ resp' = [op |-> "login_user",
                                         body |-> [success |-> TRUE,
                                                   session_token |-> token,
                                                   user |-> session_user(user, email)]]
                             /\ UNCHANGED users
        /\ StoresUntouched

validate_session ==
    \E token \in Tokens :
        /\ req' = [op |-> "validate_session", session_token |-> token]
        /\ resp' = [op |-> "validate_session",
                    body |-> IF token \in DOMAIN sessions
                             THEN [success |-> TRUE, user |-> sessions[token]]
                             ELSE [success |-> FALSE, error |-> "Invalid session"]]
        /\ UNCHANGED auth
        /\ StoresUntouched


----------------------------------------------------------------------------
(* Specifications *)

Quiet ==
    /\ req = NoReq
    /\ resp = NoResp
    /\ lastUpload = [u \in Users |-> NoWork]
    /\ posted = <<>>
    /\ pc = [w \in Workers |-> "idle"]
    /\ work = [w \in Workers |-> NoWork]
    /\ loaded = [w \in Workers |-> <<>>]
    /\ users = <<>>
    /\ sessions = <<>>
    /\ issued = NoneIssued

\* Both servers started with no data files.
Init ==
    /\ resumes_file = <<>>
    /\ jobs_file = <<>>
    /\ uuids = 0
    /\ Quiet

Next ==
    \/ upload_resume
    \/ match_candidates
    \/ get_resume_insights
    \/ post_job
    \/ match_jobs
    \/ get_job_insights
    \/ send_response

Spec == Init /\ [][Next]_vars

\* A record found on disk: any Resume / JobPosting the schema admits, the
\* embedding being Optional.
OnDisk == [owner : Users, text : Texts, embedded : BOOLEAN]

DistinctOwners(ps) ==
    \A i, j \in 1..Len(ps) : i # j => ps[i].owner # ps[j].owner

\* Both servers started on data files written earlier: resumes.json holds at
\* most one resume per user_id (upload_resume keeps it so), jobs.json any
\* list of postings; ids are distinct.
InitStore ==
    /\ \E n \in 0..MaxRecords : \E kr \in 0..n :
         \E rs \in [1..kr -> OnDisk], js \in [1..(n - kr) -> OnDisk] :
            /\ DistinctOwners(rs)
            /\ resumes_file =
                 [i \in 1..kr |->
                    [NewResume(i, rs[i].owner, rs[i].text) EXCEPT
                        !.embedding = IF rs[i].embedded THEN @ ELSE NoEmbedding]]
            /\ jobs_file =
                 [i \in 1..(n - kr) |->
                    [NewJob(kr + i, CHOOSE job_data \in JobSubmissions :
                                       /\ job_data.employer_id = js[i].owner
                                       /\ job_data.description = js[i].text)
                        EXCEPT
                        !.embedding = IF js[i].embedded THEN @ ELSE NoEmbedding]]
            /\ uuids = n
    /\ Quiet

\* The read-only routes, applied to the files as found.
NextStore ==
    \/ match_candidates
    \/ get_resume_insights
    \/ match_jobs
    \/ get_job_insights
    \/ send_response

SpecStore == InitStore /\ [][NextStore]_vars

----------------------------------------------------------------------------
(* Two write requests whose steps interleave.  An upload_resume request    *)
(* builds its Resume, loads the file into its local list, filters and      *)
(* appends, and saves the local list over the file; a post_job request     *)
(* does the same on jobs.json, without the filter.                         *)

\* lines 130-153: the Resume is built, with a fresh uuid4
upload_resume_begin(w) ==
    \E user_id \in Users, raw_text \in Texts :
        /\ pc[w] = "idle"
        /\ uuids < MaxRecords
        /\ work' = [work EXCEPT ![w] = NewResume(uuids + 1, user_id, raw_text)]
        /\ uuids' = uuids + 1
        /\ pc' = [pc EXCEPT ![w] = "load"]
        /\ UNCHANGED <<auth, resumes_file, jobs_file, req, resp, lastUpload, posted, loaded>>

\* resumes = load_resumes()
upload_resume_load(w) ==
    /\ pc[w] = "load"
    /\ loaded' = [loaded EXCEPT ![w] = load_resumes]
    /\ pc' = [pc EXCEPT ![w] = "filter"]
    /\ UNCHANGED <<auth, resumes_file, jobs_file, uuids, req, resp, lastUpload, posted, work>>

\* resumes = [r for r in resumes if r.user_id != user_id]; resumes.append(resume)
upload_resume_filter_append(w) ==
    /\ pc[w] = "filter"
    /\ loaded' = [loaded EXCEPT
                    ![w] = Append(remove_existing(loaded[w], work[w].user_id), work[w])]
    /\ pc' = [pc EXCEPT ![w] = "save"]
    /\ UNCHANGED <<auth, resumes_file, jobs_file, uuids, req, resp, lastUpload, posted, work>>

\* save_resumes(resumes)
upload_resume_save_merging(w) ==
    /\ pc[w] = "save"
    /\ resumes_file' = Append(resumes_file, work[w])
    /\ pc' = [pc EXCEPT ![w] = "done"]
    /\ UNCHANGED <<auth, jobs_file, uuids, req, resp, lastUpload, posted, work, loaded>>
upload_resume_save(w) ==
    /\ pc[w] = "save"
    /\ resumes_file' = loaded[w]
    /\ pc' = [pc EXCEPT ![w] = "done"]
    /\ UNCHANGED <<auth, jobs_file, uuids, req, resp, lastUpload, posted, work, loaded>>

\* post_job, lines 96-112: the JobPosting is built, with a fresh uuid4
post_job_begin(w) ==
    \E job_data \in JobSubmissions :
        /\ pc[w] = "idle"
        /\ uuids < MaxRecords
        /\ work' = [work EXCEPT ![w] = NewJob(uuids + 1, job_data)]
        /\ uuids' = uuids + 1
        /\ pc' = [pc EXCEPT ![w] = "job_load"]
        /\ UNCHANGED <<auth, resumes_file, jobs_file, req, resp, lastUpload, posted, loaded>>

\* jobs = load_jobs()
post_job_load(w) ==
    /\ pc[w] = "job_load"
    /\ loaded' = [loaded EXCEPT ![w] = load_jobs]
    /\ pc' = [pc EXCEPT ![w] = "job_append"]
    /\ UNCHANGED <<auth, resumes_file, jobs_file, uuids, req, resp, lastUpload, posted, work>>

\* jobs.append(job)
post_job_append(w) ==
    /\ pc[w] = "job_append"
    /\ loaded' = [loaded EXCEPT ![w] = Append(loaded[w], work[w])]
    /\ pc' = [pc EXCEPT ![w] = "job_save"]
    /\ UNCHANGED <<auth, resumes_file, jobs_file, uuids, req, resp, lastUpload, posted, work>>

\* save_jobs(jobs); the request returns "Job posted successfully"
post_job_save(w) ==
    /\ pc[w] = "job_save"
    /\ jobs_file' = loaded[w]
    /\ pc' = [pc EXCEPT ![w] = "posted"]
    /\ UNCHANGED <<auth, resumes_file, uuids, req, resp, lastUpload, posted, work, loaded>>

\* The resume server started on a resumes.json that leaves a uuid for each
\* of the two requests.
InitConc ==
    /\ \E kr \in 0..(MaxRecords - 2) : \E rs \in [1..kr -> OnDisk] :
            /\ DistinctOwners(rs)
            /\ resumes_file =
                 [i \in 1..kr |->
                    [NewResume(i, rs[i].owner, rs[i].text) EXCEPT
                        !.embedding = IF rs[i].embedded THEN @ ELSE NoEmbedding]]
            /\ uuids = kr
    /\ jobs_file = <<>>
    /\ Quiet

NextConc ==
    \E w \in Workers :
        \/ upload_resume_begin(w)
        \/ upload_resume_load(w)
        \/ upload_resume_filter_append(w)
        \/ upload_resume_save(w)
        \/ post_job_begin(w)
        \/ post_job_load(w)
        \/ post_job_append(w)
        \/ post_job_save(w)

SpecConc == InitConc /\ [][NextConc]_vars

----------------------------------------------------------------------------
(* aggregator_server.py: the query router *)

\* parse_job_seeker_query, first rule
seeker_job_words ==
    <<<<"j", "o", "b">>,
      <<"p", "o", "s", "i", "t", "i", "o", "n">>,
      <<"r", "o", "l", "e">>,
      <<"o", "p", "p", "o", "r", "t", "u", "n", "i", "t", "y">>>>

\* the secondary groups of the first rule of either role
recommend_words ==
    <<<<"b", "e", "s", "t">>,
      <<"t", "o", "p">>,
      <<"r", "e", "c", "o", "m", "m", "e", "n", "d">>,
      <<"s", "u", "i", "t", "a", "b", "l", "e">>>>

\* the count group
count_words ==
    <<<<"h", "o", "w", " ", "m", "a", "n", "y">>,
      <<"c", "o", "u", "n", "t">>>>

\* parse_job_seeker_query, second to fourth rule
seeker_skill_words ==
    <<<<"s", "k", "i", "l", "l">>,
      <<"i", "m", "p", "r", "o", "v", "e">>,
      <<"m", "i", "s", "s", "i", "n", "g">>,
      <<"g", "a", "p">>>>

\* third rule
seeker_market_words ==
    <<<<"m", "a", "r", "k", "e", "t">>,
      <<"t", "r", "e", "n", "d">>,
      <<"p", "o", "p", "u", "l", "a", "r">>,
      <<"d", "e", "m", "a", "n", "d">>>>

\* fourth rule
seeker_resume_words ==
    <<<<"r", "e", "s", "u", "m", "e">>,
      <<"c", "v">>,
      <<"p", "r", "o", "f", "i", "l", "e">>>>

\* parse_employer_query, first rule
employer_candidate_words ==
    <<<<"c", "a", "n", "d", "i", "d", "a", "t", "e">>,
      <<"a", "p", "p", "l", "i", "c", "a", "n", "t">>,
      <<"r", "e", "s", "u", "m", "e">>>>

\* parse_employer_query, second rule
employer_skill_words ==
    <<<<"s", "k", "i", "l", "l">>,
      <<"t", "a", "l", "e", "n", "t">>,
      <<"e", "x", "p", "e", "r", "t", "i", "s", "e">>>>

\* parse_employer_query, third rule
employer_job_words ==
    <<<<"j", "o", "b">>,
      <<"p", "o", "s", "i", "t", "i", "o", "n">>,
      <<"p", "o", "s", "t", "i", "n", "g">>>>

\* parse_job_seeker_query(query) -> {"intent": ..., "type": ...}
parse_job_seeker_query_skill_first(query) ==
    LET query_lower == lower(query)
    IN  IF any_in(query_lower, seeker_skill_words)
        THEN [intent |-> "skill_analysis", type |-> "improvement"]
        ELSE IF any_in(query_lower, seeker_job_words)
        THEN IF any_in(query_lower, recommend_words)
             THEN [intent |-> "find_jobs", type |-> "recommendation"]
             ELSE IF any_in(query_lower, count_words)
             THEN [intent |-> "job_stats", type |-> "count"]
             ELSE [intent |-> "general", type |-> "help"]
        ELSE IF any_in(query_lower, seeker_market_words)
        THEN [intent |-> "market_insights", type |-> "trends"]
        ELSE IF any_in(query_lower, seeker_resume_words)
        THEN [intent |-> "resume_feedback", type |-> "analysis"]
        ELSE [intent |-> "general", type |-> "help"]
parse_job_seeker_query(query) ==
    LET query_lower == lower(query)
    IN  IF any_in(query_lower, seeker_job_words)
        THEN IF any_in(query_lower, recommend_words)
             THEN [intent |-> "find_jobs", type |-> "recommendation"]
             ELSE IF any_in(query_lower, count_words)
             THEN [intent |-> "job_stats", type |-> "count"]
             ELSE [intent |-> "general", type |-> "help"]
        ELSE IF any_in(query_lower, seeker_skill_words)
        THEN [intent |-> "skill_analysis", type |-> "improvement"]
        ELSE IF any_in(query_lower, seeker_market_words)
        THEN [intent |-> "market_insights", type |-> "trends"]
        ELSE IF any_in(query_lower, seeker_resume_words)
        THEN [intent |-> "resume_feedback", type |-> "analysis"]
        ELSE [intent |-> "general", type |-> "help"]

\* parse_employer_query(query) -> {"intent": ..., "type": ...}
parse_employer_query_with_feedback(query) ==
    LET query_lower == lower(query)
    IN  IF any_in(query_lower, employer_candidate_words)
        THEN IF any_in(query_lower, recommend_words)
             THEN [intent |-> "find_candidates", type |-> "recommendation"]
             ELSE IF any_in(query_lower, count_words)
             THEN [intent |-> "candidate_stats", type |-> "count"]
             ELSE [intent |-> "resume_feedback", type |-> "analysis"]
        ELSE IF any_in(query_lower, employer_skill_words)
        THEN [intent |-> "skill_analysis", type |-> "market"]
        ELSE IF any_in(query_lower, employer_job_words)
        THEN [intent |-> "job_management", type |-> "analysis"]
        ELSE [intent |-> "general", type |-> "help"]
parse_employer_query_count_as_find(query) ==
    LET query_lower == lower(query)
    IN  IF any_in(query_lower, employer_candidate_words)
        THEN IF any_in(query_lower, recommend_words)
             THEN [intent |-> "find_candidates", type |-> "recommendation"]
             ELSE IF any_in(query_lower, count_words)
             THEN [intent |-> "find_candidates", type |-> "recommendation"]
             ELSE [intent |-> "general", type |-> "help"]
        ELSE IF any_in(query_lower, employer_skill_words)
        THEN [intent |-> "skill_analysis", type |-> "market"]
        ELSE IF any_in(query_lower, employer_job_words)
        THEN [intent |-> "job_management", type |-> "analysis"]
        ELSE [intent |-> "general", type |-> "help"]
parse_employer_query(query) ==
    LET query_lower == lower(query)
    IN  IF any_in(query_lower, employer_candidate_words)
        THEN IF any_in(query_lower, recommend_words)
             THEN [intent |-> "find_candidates", type |-> "recommendation"]
             ELSE IF any_in(query_lower, count_words)
             THEN [intent |-> "candidate_stats", type |-> "count"]
             ELSE [intent |-> "general", type |-> "help"]
        ELSE IF any_in(query_lower, employer_skill_words)
        THEN [intent |-> "skill_analysis", type |-> "market"]
        ELSE IF any_in(query_lower, employer_job_words)
        THEN [intent |-> "job_management", type |-> "analysis"]
        ELSE [intent |-> "general", type |-> "help"]

\* words in a query
MaxWords == 3

\* The words a query is made of, joined by single spaces.
QueryWords ==
    {<<"j", "o", "b">>,
     <<"R", "o", "l", "e">>,
     <<"b", "e", "s", "t">>,
     <<"l", "a", "p", "t", "o", "p">>,
     <<"h", "o", "w", " ", "m", "a", "n", "y">>,
     <<"s", "k", "i", "l", "l", "s">>,
     <<"m", "a", "r", "k", "e", "t">>,
     <<"r", "e", "s", "u", "m", "e">>,
     <<"c", "a", "n", "d", "i", "d", "a", "t", "e", "s">>,
     <<"p", "o", "s", "t", "i", "n", "g">>,
     <<"d", "o", " ", "w", "e", " ", "h", "a", "v", "e">>}

Queries == UNION {[1..n -> QueryWords] : n \in 0..MaxWords}

\* The router applied to a query: req.words are the words of the query text.
route_job_seeker ==
    /\ Ready
    /\ \E words \in Queries :
          /\ req' = [op |-> "parse_job_seeker_query", words |-> words]
          /\ resp' = [op |-> "parse_job_seeker_query",
                      body |-> parse_job_seeker_query(join(words))]
    /\ UNCHANGED <<auth, resumes_file, jobs_file, uuids, lastUpload, posted,
                   pc, work, loaded>>

route_employer ==
    /\ Ready
    /\ \E words \in Queries :
          /\ req' = [op |-> "parse_employer_query", words |-> words]
          /\ resp' = [op |-> "parse_employer_query",
                      body |-> parse_employer_query(join(words))]
    /\ UNCHANGED <<auth, resumes_file, jobs_file, uuids, lastUpload, posted,
                   pc, work, loaded>>

NextRouter ==
    \/ route_job_seeker
    \/ route_employer
    \/ send_response

SpecRouter == Init /\ [][NextRouter]_vars

----------------------------------------------------------------------------
(* aggregator_server.py: handle_chat_query.  Each awaited call is answered *)
(* by a read-only handler of one of the two other servers, and the two      *)
(* servers read different files, so the reply is the one the handler gives  *)
(* when it runs in one step on the files as they are.                       *)

\* query.context: None and {} are both falsy, and are the empty dict here
NoContext == <<>>

\* dict.get(key, default)
get(dict, key, default) == IF key \in DOMAIN dict THEN dict[key] ELSE default

\* ChatResponse.data left at its default None
NoData == [none |-> TRUE]

\* intent_data of a query whose user_type has no parser
NoIntent == [intent |-> "none", type |-> "none"]

\* top_k of the match calls, and the lengths of the listings in the replies
ChatTopK == 5
ListedMatches == 3
ListedSkills == 5

\* call_resume_server / call_job_server: the JSON of the reply, or
\* {"error": str(e)} when the request raised
call_server(up, reply) == IF up THEN reply ELSE [error |-> "request failed"]

\* The reply of the default branch.
default_response(user_type) ==
    [response |-> [text |-> "I'm here to help! I can assist with job matching, skill analysis, and market insights. What would you like to know?"],
     data |-> NoData,
     suggestions |-> <<IF user_type = "job_seeker" THEN "Find me suitable jobs"
                       ELSE "Show me qualified candidates",
                       "Analyze market trends",
                       "Get skill recommendations">>]

\* The ChatResponse of handle_chat_query for a ChatQuery whose parser gave
\* intent_data, the servers being reachable or not, and `places` and
\* `backgrounds` being the orders in which the insight handlers list their
\* sets.
chat_response(query, intent_data, resume_up, job_up, places, backgrounds) ==
    LET job_insights == call_server(job_up, job_insight(load_jobs, places))
        resume_insights ==
            call_server(resume_up, resume_insight(load_resumes, backgrounds))
    IN  IF query.user_type = "job_seeker" /\ intent_data.intent = "find_jobs"
        THEN LET job_matches ==
                    call_server(job_up, match_jobs_response(
                        [resume_text |->
                             IF DOMAIN query.context # {}
                             THEN get(query.context, "resume_text", <<>>)
                             ELSE <<>>,
                         top_k |-> ChatTopK,
                         exclude_employer_id |-> NoOwner]))
             IN  IF "matches" \in DOMAIN job_matches
                 THEN [response |->
                          [text |-> "I found N great job opportunities for you:",
                           n |-> Len(job_matches.matches),
                           listed |-> Slice(job_matches.matches, ListedMatches)],
                       data |-> job_matches,
                       suggestions |-> <<"Tell me more about the first job",
                                         "What skills should I improve?",
                                         "Show me remote opportunities">>]
                 ELSE [response |->
                          [text |-> "I couldn't find any job matches right now. Try uploading your resume first!"],
                       data |-> NoData,
                       suggestions |-> <<"Upload my resume", "View market trends",
                                         "Get career advice">>]
        ELSE IF query.user_type = "job_seeker" /\ intent_data.intent = "skill_analysis"
        THEN [response |->
                 [text |-> "Based on current market trends, here are the most in-demand skills:",
                  skills |-> IF "popular_skills" \in DOMAIN job_insights
                             THEN Slice(job_insights.popular_skills, ListedSkills)
                             ELSE <<>>],
              data |-> [job_insights |-> job_insights,
                        resume_insights |-> resume_insights],
              suggestions |-> <<"Find jobs requiring these skills",
                                "Show me learning resources",
                                "Analyze my current skills">>]
        ELSE IF query.user_type = "job_seeker" /\ intent_data.intent = "market_insights"
        THEN [response |->
                 [text |-> "Current Job Market Overview:",
                  total_jobs |-> get(job_insights, "total_jobs", 0),
                  top_companies |->
                      Slice(get(job_insights, "top_companies", <<>>), ListedMatches),
                  locations |->
                      Slice(get(job_insights, "locations", <<>>), ListedMatches)],
              data |-> job_insights,
              suggestions |-> <<"Show me jobs at top companies",
                                "Find remote opportunities",
                                "What skills are trending?">>]
        ELSE IF query.user_type = "employer" /\ intent_data.intent = "find_candidates"
        THEN LET job_context ==
                    IF DOMAIN query.context # {}
                    THEN get(query.context, "job_description", <<>>)
                    ELSE <<"s","o","f","t","w","a","r","e"," ","d","e","v","e","l","o","p","e","r">>
                 candidate_matches ==
                    call_server(resume_up, match_candidates_response(
                        [job_description |-> job_context,
                         top_k |-> ChatTopK,
                         exclude_user_id |-> query.user_id]))
             IN  IF "matches" \in DOMAIN candidate_matches
                 THEN [response |->
                          [text |-> "I found N qualified candidates:",
                           n |-> Len(candidate_matches.matches),
                           listed |-> Slice(candidate_matches.matches, ListedMatches)],
                       data |-> candidate_matches,
                       suggestions |-> <<"Show me more details about candidate 1",
                                         "Filter by specific skills",
                                         "View candidate portfolios">>]
                 ELSE [response |->
                          [text |-> "No matching candidates found. Try posting a job description first!"],
                       data |-> NoData,
                       suggestions |-> <<"Post a new job",
                                         "View talent market insights",
                                         "Adjust job requirements">>]
        ELSE IF query.user_type = "employer" /\ intent_data.intent = "skill_analysis"
        THEN [response |->
                 [text |-> "Talent Pool Analysis:",
                  skills |-> IF "top_skills" \in DOMAIN resume_insights
                             THEN Slice(resume_insights.top_skills, ListedSkills)
                             ELSE <<>>,
                  experience_levels |->
                      IF "experience_levels" \in DOMAIN resume_insights
                      THEN resume_insights.experience_levels
                      ELSE <<>>],
              data |-> resume_insights,
              suggestions |-> <<"Find candidates with specific skills",
                                "Post job for entry-level candidates",
                                "View market salary trends">>]
        ELSE default_response(query.user_type)

\* the parser that handle_chat_query applies for the user_type
intent_of(user_type, text) ==
    IF user_type = "job_seeker" THEN parse_job_seeker_query(text)
    ELSE IF user_type = "employer" THEN parse_employer_query(text)
    ELSE NoIntent

\* ChatQuery.user_type: the two roles and a string that is neither
UserTypes == {"job_seeker", "employer", "admin"}

\* ChatQuery.query: the empty query, the queries of one word, and four
\* queries with a secondary keyword
ChatQueries ==
    {words \in Queries : Len(words) <= 1}
        \cup {<<<<"b","e","s","t">>, <<"j","o","b">>>>,
              <<<<"h","o","w"," ","m","a","n","y">>, <<"j","o","b">>>>,
              <<<<"b","e","s","t">>, <<"c","a","n","d","i","d","a","t","e","s">>>>,
              <<<<"h","o","w"," ","m","a","n","y">>, <<"c","a","n","d","i","d","a","t","e","s">>,
                <<"d","o"," ","w","e"," ","h","a","v","e">>>>}

\* ChatQuery.context
Contexts ==
    {NoContext} \cup {[resume_text |-> t] : t \in Texts}
                \cup {[job_description |-> t] : t \in Texts}

ChatQuerySet ==
    [user_id : Users, user_type : UserTypes, words : ChatQueries,
     context : Contexts]

\* POST /chat.  intent_data is kept beside the reply.
handle_chat_query ==
    /\ Ready
    /\ \E query \in ChatQuerySet, resume_up \in BOOLEAN, job_up \in BOOLEAN :
        \E places \in list_of_set(location_set(load_jobs)),
           backgrounds \in list_of_set(education_set(load_resumes)) :
            LET intent_data == intent_of(query.user_type, join(query.words))
            IN  /\ req' = [op |-> "handle_chat_query", user_id |-> query.user_id,
                           user_type |-> query.user_type, words |-> query.words,
                           context |-> query.context,
                           resume_server_up |-> resume_up,
                           job_server_up |-> job_up]
                /\ resp' = [op |-> "handle_chat_query",
                            intent_data |-> intent_data,
                            body |-> chat_response(query, intent_data, resume_up,
                                                   job_up, places, backgrounds)]
    /\ UNCHANGED <<auth, resumes_file, jobs_file, uuids, lastUpload, posted,
                   pc, work, loaded>>

\* The three servers started; resumes.json holds at most one resume and
\* jobs.json fewer than MaxRecords postings, all written by upload_resume
\* and post_job.
InitChat ==
    /\ \E kr \in 0..1, kj \in 0..(MaxRecords - 1) :
         \E rs \in [1..kr -> [owner : Users, text : Texts]],
            js \in [1..kj -> JobSubmissions] :
            /\ resumes_file = [i \in 1..kr |-> NewResume(i, rs[i].owner, rs[i].text)]
            /\ jobs_file = [i \in 1..kj |-> NewJob(kr + i, js[i])]
            /\ uuids = kr + kj
    /\ Quiet

NextChat ==
    \/ handle_chat_query
    \/ send_response

SpecChat == InitChat /\ [][NextChat]_vars

----------------------------------------------------------------------------
(* The insight routes on stores whose records differ in the fields that    *)
(* the snapshots aggregate.                                                *)

\* Resume.skills: among them a list of eleven, one more than the display limit
Skills ==
    {<<"General">>,
     <<"Python", "SQL">>,
     <<"Go", "SQL">>,
     <<"Python", "SQL", "Go", "Rust", "Java", "C", "Docker", "AWS", "Git",
       "Linux", "React">>}

\* Resume.experience: "", "3 years", "Lead developer, 8 years of experience",
\* "Junior developer, 1 years"
Experiences ==
    {<<>>,
     <<"3"," ","y","e","a","r","s">>,
     <<"L","e","a","d"," ","d","e","v","e","l","o","p","e","r",","," ","8"," ","y","e","a","r","s"," ","o","f"," ","e","x","p","e","r","i","e","n","c","e">>,
     <<"J","u","n","i","o","r"," ","d","e","v","e","l","o","p","e","r",","," ","1"," ","y","e","a","r","s">>}

\* Resume.education: "", "BSc Physics" and a text of 53 characters, more
\* than the 50 that education_backgrounds keeps
Educations ==
    {<<>>,
     <<"B","S","c"," ","P","h","y","s","i","c","s">>,
     <<"M","a","s","t","e","r"," ","o","f"," ","S","c","i","e","n","c","e"," ","i","n"," ","C","o","m","p","u","t","e","r"," ","S","c","i","e","n","c","e"," ","a","n","d"," ","E","n","g","i","n","e","e","r","i","n","g">>}

ResumesOnDisk ==
    [owner : Users, skills : Skills, experience : Experiences,
     education : Educations]

\* description, requirements and job_type of a posting: one names two
\* skills of the vocabulary (sql, agile) and has the default job_type, the
\* other names eleven and is a contract
Postings ==
    {[description |-> <<"A","g","i","l","e"," ","t","e","a","m">>,
      requirements |-> <<<<"S","Q","L">>>>,
      job_type |-> "Full-time"],
     [description |-> <<"P","y","t","h","o","n",","," ","J","a","v","a",","," ","R","e","a","c","t",","," ","A","W","S",","," ","D","o","c","k","e","r",","," ","K","u","b","e","r","n","e","t","e","s"," ","a","n","d"," ","G","i","t">>,
      requirements |-> <<<<"S","Q","L">>,
                         <<"S","c","r","u","m">>,
                         <<"T","e","a","m","w","o","r","k">>,
                         <<"L","e","a","d","e","r","s","h","i","p">>>>,
      job_type |-> "Contract"]}

JobsOnDisk ==
    [company : {"Acme", "Globex"}, posting : Postings,
     location : {"NYC", "Remote"}]

\* One of the two servers started on a data file written earlier, the file
\* of the other server being absent: resumes.json with at most one resume per
\* user_id, or jobs.json with up to MaxRecords postings.
InitInsight ==
    /\ \/ \E kr \in 0..Cardinality(Users) : \E rs \in [1..kr -> ResumesOnDisk] :
            /\ DistinctOwners(rs)
            /\ resumes_file =
                 [i \in 1..kr |->
                    [id |-> i, user_id |-> rs[i].owner, skills |-> rs[i].skills,
                     experience |-> rs[i].experience,
                     education |-> rs[i].education,
                     raw_text |-> <<>>, embedding |-> NoEmbedding]]
            /\ jobs_file = <<>>
            /\ uuids = kr
       \/ \E kj \in 1..MaxRecords : \E js \in [1..kj -> JobsOnDisk] :
            /\ resumes_file = <<>>
            /\ jobs_file =
                 [i \in 1..kj |->
                    NewJob(i, [employer_id |-> "u1", title |-> <<>>,
                               company |-> js[i].company,
                               description |-> js[i].posting.description,
                               requirements |-> js[i].posting.requirements,
                               location |-> js[i].location,
                               job_type |-> js[i].posting.job_type])]
            /\ uuids = kj
    /\ Quiet

NextInsight ==
    \/ get_resume_insights
    \/ get_job_insights
    \/ send_response

SpecInsight == InitInsight /\ [][NextInsight]_vars

----------------------------------------------------------------------------
(* extract_skills_from_job applied to descriptions and requirement lists *)

\* entries of a requirements list
MaxRequirements == 2

\* The words of the descriptions and requirements: skills of the vocabulary
\* in mixed case, a word that holds one ("digital" holds "git", "JavaScript"
\* holds "java"), the two halves of "machine learning", and a word that
\* holds none.
SkillWords ==
    {<<"P","y","t","h","o","n">>,
     <<"J","a","v","a","S","c","r","i","p","t">>,
     <<"N","o","d","e",".","j","s">>,
     <<"S","Q","L">>,
     <<"m","a","c","h","i","n","e">>,
     <<"l","e","a","r","n","i","n","g">>,
     <<"d","i","g","i","t","a","l">>,
     <<"c","o","o","k","i","n","g">>}

Descriptions == {<<>>} \cup SkillWords
Requirements == UNION {[1..n -> SkillWords] : n \in 0..MaxRequirements}

extract_skills ==
    /\ Ready
    /\ \E description \in Descriptions, requirements \in Requirements :
          /\ req' = [op |-> "extract_skills_from_job",
                     description |-> description,
                     requirements |-> requirements]
          /\ resp' = [op |-> "extract_skills_from_job",
                      body |-> extract_skills_from_job(description, requirements)]
    /\ UNCHANGED <<auth, resumes_file, jobs_file, uuids, lastUpload, posted,
                   pc, work, loaded>>

NextSkills ==
    \/ extract_skills
    \/ send_response

SpecSkills == Init /\ [][NextSkills]_vars

----------------------------------------------------------------------------
(* upload_resume on a resumes.json that holds the resumes of several users *)

\* the owners of the resumes on disk: the two users and a third
Owners == Users \cup {"u3"}

\* The resume server started on a resumes.json written by earlier runs: at
\* most one resume per user_id, with ids that this run does not issue again.
InitUpload ==
    /\ \E kr \in 0..MaxRecords : \E rs \in [1..kr -> [owner : Owners, text : Texts]] :
            /\ DistinctOwners(rs)
            /\ resumes_file =
                 [i \in 1..kr |-> NewResume(MaxRecords + i, rs[i].owner, rs[i].text)]
    /\ jobs_file = <<>>
    /\ uuids = 0
    /\ Quiet

NextUpload ==
    \/ upload_resume
    \/ send_response

SpecUpload == InitUpload /\ [][NextUpload]_vars

----------------------------------------------------------------------------
(* MockAuth: any sequence of register_user, login_user and validate_session *)
(* calls on a fresh auth_service *)

NextAuth ==
    \/ register_user
    \/ login_user
    \/ validate_session

SpecAuth == Init /\ [][NextAuth]_vars


----------------------------------------------------------------------------
(* Properties.  A state with resp.op = "match_candidates" is the state     *)
(* right after that handler ran: req is its request, resp its response,    *)
(* and the files are those the handler read.                               *)

Candidates == resp.op = "match_candidates"
Jobs == resp.op = "match_jobs"

\* The position of the record with this id in a store (ids are distinct).
Pos(store, id) == CHOOSE j \in 1..Len(store) : store[j].id = id

\* The records a match call with exclusion id x is to consider.
NotExcludedResumes(x) ==
    {j \in 1..Len(resumes_file) : resumes_file[j].user_id # x}
NotExcludedJobs(x) ==
    {j \in 1..Len(jobs_file) : jobs_file[j].employer_id # x}

\* The score of a stored record for the query text of req.
ScoreOf(r) == cosine_similarity(encode(req.text), r.embedding)

\* C1: for a match call with a non-empty exclusion id X, no returned match
\* belongs to a record owned by X, and the returned total is the number of
\* stored records not owned by X.
C1_ExclusionAndTotal ==
    /\ (Candidates /\ req.exclude # NoOwner) =>
          /\ \A i \in 1..Len(resp.body.matches) : \A j \in 1..Len(resumes_file) :
                resumes_file[j].id = resp.body.matches[i].resume_id
                    => resumes_file[j].user_id # req.exclude
          /\ "total_candidates" \in DOMAIN resp.body
          /\ resp.body.total_candidates = Cardinality(NotExcludedResumes(req.exclude))
    /\ (Jobs /\ req.exclude # NoOwner) =>
          /\ \A i \in 1..Len(resp.body.matches) : \A j \in 1..Len(jobs_file) :
                jobs_file[j].id = resp.body.matches[i].job_id
                    => jobs_file[j].employer_id # req.exclude
          /\ "total_jobs" \in DOMAIN resp.body
          /\ resp.body.total_jobs = Cardinality(NotExcludedJobs(req.exclude))

\* C2: the returned matches are in non-increasing order of score, and two
\* matches of equal score are in the order of their records in the store.
C2_OrderedStable ==
    /\ Candidates =>
          LET m == resp.body.matches
          IN  \A i, j \in 1..Len(m) : i < j =>
                /\ m[i].similarity_score >= m[j].similarity_score
                /\ m[i].similarity_score = m[j].similarity_score
                    => Pos(resumes_file, m[i].resume_id) < Pos(resumes_file, m[j].resume_id)
    /\ Jobs =>
          LET m == resp.body.matches
          IN  \A i, j \in 1..Len(m) : i < j =>
                /\ m[i].similarity_score >= m[j].similarity_score
                /\ m[i].similarity_score = m[j].similarity_score
                    => Pos(jobs_file, m[i].job_id) < Pos(jobs_file, m[j].job_id)

\* Two matches of equal score returned, behind a match of higher score left
\* out or not: a tie was ordered.
C2_Witness ==
    /\ Jobs
    /\ Len(resp.body.matches) = 2
    /\ resp.body.matches[1].similarity_score = resp.body.matches[2].similarity_score
    /\ \E j \in 1..Len(jobs_file) :
          /\ HasEmbedding(jobs_file[j])
          /\ ScoreOf(jobs_file[j]) < resp.body.matches[1].similarity_score

\* C3: for every top_k <= 0 the match list is empty.
C3_NonPositiveTopKEmpty ==
    ((Candidates \/ Jobs) /\ req.top_k <= 0) => resp.body.matches = <<>>

\* C4: for every top_k >= 0 the match list has exactly min(top_k, n)
\* entries, n being the number of non-excluded records with an embedding,
\* and they are the first entries of the ranking of those n records: each
\* is such a record with its score, and every such record left out ranks
\* behind every returned one (lower score, or equal score and later in the
\* store).
C4_TopKPrefix ==
    /\ (Candidates /\ req.top_k >= 0) =>
          LET m == resp.body.matches
              eligible == {j \in NotExcludedResumes(req.exclude) :
                              resumes_file[j].embedding # NoEmbedding}
              n == Cardinality(eligible)
              returned == {Pos(resumes_file, m[i].resume_id) : i \in 1..Len(m)}
          IN  /\ Len(m) = IF req.top_k <= n THEN req.top_k ELSE n
              /\ Cardinality(returned) = Len(m)
              /\ returned \subseteq eligible
              /\ \A i \in 1..Len(m) :
                    m[i].similarity_score =
                        ScoreOf(resumes_file[Pos(resumes_file, m[i].resume_id)])
              /\ \A j \in eligible \ returned : \A k \in returned :
                    \/ ScoreOf(resumes_file[j]) < ScoreOf(resumes_file[k])
                    \/ /\ ScoreOf(resumes_file[j]) = ScoreOf(resumes_file[k])
                       /\ j > k
    /\ (Jobs /\ req.top_k >= 0) =>
          LET m == resp.body.matches
              eligible == {j \in NotExcludedJobs(req.exclude) :
                              jobs_file[j].embedding # NoEmbedding}
              n == Cardinality(eligible)
              returned == {Pos(jobs_file, m[i].job_id) : i \in 1..Len(m)}
          IN  /\ Len(m) = IF req.top_k <= n THEN req.top_k ELSE n
              /\ Cardinality(returned) = Len(m)
              /\ returned \subseteq eligible
              /\ \A i \in 1..Len(m) :
                    m[i].similarity_score = ScoreOf(jobs_file[Pos(jobs_file, m[i].job_id)])
              /\ \A j \in eligible \ returned : \A k \in returned :
                    \/ ScoreOf(jobs_file[j]) < ScoreOf(jobs_file[k])
                    \/ /\ ScoreOf(jobs_file[j]) = ScoreOf(jobs_file[k])
                       /\ j > k

\* Three postings with embeddings, top_k = 2, no exclusion: two entries.
C4_Witness ==
    /\ Jobs
    /\ req.top_k = 2
    /\ req.exclude = NoOwner
    /\ Len(jobs_file) = 3
    /\ \A j \in 1..3 : HasEmbedding(jobs_file[j])
    /\ Len(resp.body.matches) = 2
    /\ resp.body.matches[1].similarity_score > resp.body.matches[2].similarity_score

\* C5 as stated: a record without an embedding is in no match list, is
\* counted in the total of a match call that does not exclude its owner and
\* in the insight totals, and a store whose records all lack embeddings
\* gives an empty match list with a total greater than 0.
C5_AsStated ==
    /\ (Candidates /\ resumes_file # <<>>) =>
          /\ \A j \in 1..Len(resumes_file) : \A i \in 1..Len(resp.body.matches) :
                resumes_file[j].embedding = NoEmbedding
                    => resp.body.matches[i].resume_id # resumes_file[j].id
          /\ resp.body.total_candidates = Cardinality(NotExcludedResumes(req.exclude))
          /\ (\A j \in 1..Len(resumes_file) : resumes_file[j].embedding = NoEmbedding)
                => resp.body.matches = <<>> /\ resp.body.total_candidates > 0
    /\ (Jobs /\ jobs_file # <<>>) =>
          /\ \A j \in 1..Len(jobs_file) : \A i \in 1..Len(resp.body.matches) :
                jobs_file[j].embedding = NoEmbedding
                    => resp.body.matches[i].job_id # jobs_file[j].id
          /\ resp.body.total_jobs = Cardinality(NotExcludedJobs(req.exclude))
          /\ (\A j \in 1..Len(jobs_file) : jobs_file[j].embedding = NoEmbedding)
                => resp.body.matches = <<>> /\ resp.body.total_jobs > 0
    /\ resp.op = "get_resume_insights" => resp.body.total_resumes = Len(resumes_file)
    /\ resp.op = "get_job_insights" => resp.body.total_jobs = Len(jobs_file)

\* C5 as amended: the same, but a store whose records all lack embeddings
\* gives an empty match list with a total equal to the number of its
\* records whose owner is not excluded: greater than 0 if and only if there
\* is such a record.
C5_AbsentEmbeddingCounted ==
    /\ (Candidates /\ resumes_file # <<>>) =>
          /\ \A j \in 1..Len(resumes_file) : \A i \in 1..Len(resp.body.matches) :
                resumes_file[j].embedding = NoEmbedding
                    => resp.body.matches[i].resume_id # resumes_file[j].id
          /\ resp.body.total_candidates = Cardinality(NotExcludedResumes(req.exclude))
          /\ (\A j \in 1..Len(resumes_file) : resumes_file[j].embedding = NoEmbedding)
                => /\ resp.body.matches = <<>>
                   /\ resp.body.total_candidates > 0
                        <=> (\E j \in 1..Len(resumes_file) :
                                resumes_file[j].user_id # req.exclude)
    /\ (Jobs /\ jobs_file # <<>>) =>
          /\ \A j \in 1..Len(jobs_file) : \A i \in 1..Len(resp.body.matches) :
                jobs_file[j].embedding = NoEmbedding
                    => resp.body.matches[i].job_id # jobs_file[j].id
          /\ resp.body.total_jobs = Cardinality(NotExcludedJobs(req.exclude))
          /\ (\A j \in 1..Len(jobs_file) : jobs_file[j].embedding = NoEmbedding)
                => /\ resp.body.matches = <<>>
                   /\ resp.body.total_jobs > 0
                        <=> (\E j \in 1..Len(jobs_file) :
                                jobs_file[j].employer_id # req.exclude)
    /\ resp.op = "get_resume_insights" => resp.body.total_resumes = Len(resumes_file)
    /\ resp.op = "get_job_insights" => resp.body.total_jobs = Len(jobs_file)

\* A match call on two resumes, one without an embedding and not excluded:
\* it is counted and not returned.
C5_Witness ==
    /\ Candidates
    /\ Len(resumes_file) = 2
    /\ resumes_file[1].embedding = NoEmbedding
    /\ resumes_file[2].embedding # NoEmbedding
    /\ req.exclude = NoOwner
    /\ req.top_k = 2
    /\ Len(resp.body.matches) = 1
    /\ resp.body.total_candidates = 2

\* C6: on an empty store a match call returns an empty match list and a
\* total count field equal to 0.
C6_EmptyStoreTotalZero ==
    /\ (Candidates /\ resumes_file = <<>>) =>
          /\ resp.body.matches = <<>>
          /\ "total_candidates" \in DOMAIN resp.body
          /\ resp.body.total_candidates = 0
    /\ (Jobs /\ jobs_file = <<>>) =>
          /\ resp.body.matches = <<>>
          /\ "total_jobs" \in DOMAIN resp.body
          /\ resp.body.total_jobs = 0

\* C7: a step that is a match call or an insight call leaves both files as
\* they were.
C7_ReadOnly ==
    [][resp'.op \in {"match_candidates", "match_jobs",
                     "get_resume_insights", "get_job_insights"}
          => resumes_file' = resumes_file /\ jobs_file' = jobs_file]_vars

\* A match call that excluded the owner of a stored resume and cut the list.
C7_Witness ==
    /\ Candidates
    /\ req.exclude # NoOwner
    /\ Len(resumes_file) = 2
    /\ resp.body.total_candidates = 1
    /\ req.top_k = 0 - 1
    /\ resp.body.matches = <<>>

\* C8: after any sequence of upload_resume calls the store holds at most one
\* resume per user_id, and for each user that uploaded it is the resume of
\* that user's latest upload.
C8_OnePerUserLatest ==
    \A u \in Users :
        LET mine == {j \in 1..Len(resumes_file) : resumes_file[j].user_id = u}
        IN  /\ Cardinality(mine) <= 1
            /\ lastUpload[u] # NoWork
                => \E j \in mine : resumes_file[j] = lastUpload[u]

\* A user uploaded, another did, and the first uploaded again.
C8_Witness ==
    /\ uuids = 3
    /\ posted = <<>>
    /\ Len(resumes_file) = 2
    /\ resumes_file[2].id = 3
    /\ resumes_file[1].id = 2

\* C9: when two upload_resume requests for the same user_id have both
\* finished, however their steps interleaved, the store holds exactly one
\* resume for that user_id, one of the two uploaded.
C9_ConcurrentSameUser ==
    ((\A w \in Workers : pc[w] = "done") /\ work[1].user_id = work[2].user_id) =>
        LET mine == {j \in 1..Len(resumes_file) :
                        resumes_file[j].user_id = work[1].user_id}
        IN  /\ Cardinality(mine) = 1
            /\ \A j \in mine : resumes_file[j] \in {work[1], work[2]}

\* Both requests finished and the file holds the resume of the request that
\* began first (the smaller id): it saved last, so the two overlapped.  The
\* store held an earlier resume of the same user.
C9_Witness ==
    /\ \A w \in Workers : pc[w] = "done"
    /\ work[1].user_id = work[2].user_id
    /\ uuids = 3
    /\ Len(resumes_file) = 1
    /\ resumes_file[1].id = 2

\* C10: after any sequence of post_job calls the job store holds one
\* posting per call, in the order of the calls, each with its own id.
C10_AppendOnly ==
    /\ Len(jobs_file) = Len(posted)
    /\ \A i \in 1..Len(posted) : jobs_file[i] = posted[i]
    /\ \A i, j \in 1..Len(jobs_file) : i # j => jobs_file[i].id # jobs_file[j].id

\* Three postings, two of them of one employer.
C10_Witness ==
    /\ Len(jobs_file) = 3
    /\ jobs_file[1].employer_id = jobs_file[3].employer_id
    /\ jobs_file[2].employer_id # jobs_file[1].employer_id
    /\ Len(posted) = 3

\* The lower-cased text of the routed query holds a keyword of the group.
Mentions(group) == any_in(lower(join(req.words)), group)

SeekerRouted == resp.op = "parse_job_seeker_query"
EmployerRouted == resp.op = "parse_employer_query"

\* C11: the router is a priority list: when a keyword of an earlier
\* top-level rule occurs in the lower-cased query, the intent returned is
\* never that of a later top-level rule of the same role.
C11_PriorityList ==
    /\ SeekerRouted =>
        /\ Mentions(seeker_job_words) =>
              resp.body.intent \notin
                  {"skill_analysis", "market_insights", "resume_feedback"}
        /\ Mentions(seeker_skill_words) =>
              resp.body.intent \notin {"market_insights", "resume_feedback"}
        /\ Mentions(seeker_market_words) =>
              resp.body.intent # "resume_feedback"
    /\ EmployerRouted =>
        /\ Mentions(employer_candidate_words) =>
              resp.body.intent \notin {"skill_analysis", "job_management"}
        /\ Mentions(employer_skill_words) =>
              resp.body.intent # "job_management"

\* A seeker query with a job keyword and a skill keyword, routed to find_jobs.
C11_Witness ==
    /\ SeekerRouted
    /\ Mentions(seeker_job_words)
    /\ Mentions(seeker_skill_words)
    /\ resp.body.intent = "find_jobs"

\* C12: a query that matches the first top-level rule of its role and holds
\* no secondary keyword still gets that rule's intent (find_jobs,
\* find_candidates), not the general intent.
C12_DefaultSubIntent ==
    /\ (/\ SeekerRouted
        /\ Mentions(seeker_job_words)
        /\ ~Mentions(recommend_words)
        /\ ~Mentions(count_words)) => resp.body.intent = "find_jobs"
    /\ (/\ EmployerRouted
        /\ Mentions(employer_candidate_words)
        /\ ~Mentions(recommend_words)
        /\ ~Mentions(count_words)) => resp.body.intent = "find_candidates"

SeekerIntents ==
    {"find_jobs", "job_stats", "skill_analysis", "market_insights",
     "resume_feedback", "general"}
EmployerIntents ==
    {"find_candidates", "candidate_stats", "skill_analysis", "job_management",
     "general"}

\* C14: the intent sets are closed per role: the seeker router returns only
\* seeker intents (never job_management), the poster router only poster
\* intents (never resume_feedback).
C14_ClosedIntentSets ==
    /\ SeekerRouted => resp.body.intent \in SeekerIntents
    /\ EmployerRouted => resp.body.intent \in EmployerIntents

\* A seeker query that mentions a posting and a poster query that mentions a
\* resume without a secondary keyword: the other role would route them to
\* job_management and resume_feedback.
C14_Witness ==
    \/ /\ SeekerRouted
       /\ Mentions(employer_job_words)
       /\ ~Mentions(seeker_job_words)
       /\ parse_employer_query(join(req.words)).intent = "job_management"
       /\ resp.body.intent # "job_management"
    \/ /\ EmployerRouted
       /\ Mentions(seeker_resume_words)
       /\ ~Mentions(recommend_words)
       /\ ~Mentions(count_words)
       /\ resp.body.intent = "general"

\* C15 as stated: a poster query with a candidate keyword and a count keyword
\* routes to candidate_stats (count).
C15_AsStated ==
    (/\ EmployerRouted
     /\ Mentions(employer_candidate_words)
     /\ Mentions(count_words))
        => resp.body = [intent |-> "candidate_stats", type |-> "count"]

\* C15: a poster query with a candidate keyword and a count keyword, and with
\* none of best / top / recommend / suitable, routes to candidate_stats
\* (count); with one of those it routes to find_candidates.
C15_CountUnlessRecommend ==
    (/\ EmployerRouted
     /\ Mentions(employer_candidate_words)
     /\ Mentions(count_words))
        => resp.body = IF Mentions(recommend_words)
                       THEN [intent |-> "find_candidates",
                             type |-> "recommendation"]
                       ELSE [intent |-> "candidate_stats", type |-> "count"]

\* The query "how many candidates do we have" of a poster, routed to
\* candidate_stats.
C15_Witness ==
    /\ EmployerRouted
    /\ join(req.words) =
         <<"h","o","w"," ","m","a","n","y"," ",
           "c","a","n","d","i","d","a","t","e","s"," ",
           "d","o"," ","w","e"," ","h","a","v","e">>
    /\ resp.body = [intent |-> "candidate_stats", type |-> "count"]

ResumeInsightsRan == resp.op = "get_resume_insights"
JobInsightsRan == resp.op = "get_job_insights"

\* C16: on an empty store each insight handler returns a snapshot (not an
\* error) whose total is 0 and whose lists and mappings are all empty.
C16_EmptyStoreSnapshot ==
    /\ (ResumeInsightsRan /\ resumes_file = <<>>) =>
        /\ DOMAIN resp.body =
              {"total_resumes", "top_skills", "experience_levels",
               "education_backgrounds"}
        /\ resp.body.total_resumes = 0
        /\ Len(resp.body.top_skills) = 0
        /\ DOMAIN resp.body.experience_levels = {}
        /\ Len(resp.body.education_backgrounds) = 0
    /\ (JobInsightsRan /\ jobs_file = <<>>) =>
        /\ DOMAIN resp.body =
              {"total_jobs", "top_companies", "popular_skills", "job_types",
               "locations"}
        /\ resp.body.total_jobs = 0
        /\ Len(resp.body.top_companies) = 0
        /\ Len(resp.body.popular_skills) = 0
        /\ DOMAIN resp.body.job_types = {}
        /\ Len(resp.body.locations) = 0

\* get_resume_insights answered on an empty resumes.json.
C16_Witness ==
    /\ ResumeInsightsRan
    /\ resumes_file = <<>>
    /\ resp.body.total_resumes = 0

\* the sum of the counts of a mapping
RECURSIVE SumOfCounts(_)
SumOfCounts(counts) ==
    IF DOMAIN counts = {} THEN 0
    ELSE LET k == CHOOSE x \in DOMAIN counts : TRUE
         IN  counts[k] + SumOfCounts([x \in DOMAIN counts \ {k} |-> counts[x]])

HasSeniorWord(r) == any_in(lower(r.experience), senior_words)
HasMidWord(r) ==
    /\ any_in(lower(r.experience), mid_words)
    /\ ~any_in(lower(r.experience), entry_words)
ResumesWhere(P(_)) ==
    Cardinality({i \in 1..Len(resumes_file) : P(resumes_file[i])})

\* C17: the counts of experience_levels and of job_types sum to the number
\* of stored records, which is the snapshot's total; a resume counts for
\* Senior when a Senior word occurs, else for Mid when the Mid rule matches,
\* else for Entry.
C17_BucketsSumToTotal ==
    /\ ResumeInsightsRan =>
        /\ SumOfCounts(resp.body.experience_levels) = Len(resumes_file)
        /\ resp.body.total_resumes = Len(resumes_file)
        /\ resumes_file # <<>> =>
            /\ resp.body.experience_levels["Senior"] =
                  ResumesWhere(HasSeniorWord)
            /\ resp.body.experience_levels["Mid"] =
                  ResumesWhere(LAMBDA r: ~HasSeniorWord(r) /\ HasMidWord(r))
            /\ resp.body.experience_levels["Entry"] =
                  ResumesWhere(LAMBDA r: ~HasSeniorWord(r) /\ ~HasMidWord(r))
    /\ JobInsightsRan =>
        /\ SumOfCounts(resp.body.job_types) = Len(jobs_file)
        /\ resp.body.total_jobs = Len(jobs_file)

\* Two resumes that both match the Mid rule, one of them also the Senior
\* rule: one is counted for Senior, one for Mid.
C17_Witness ==
    /\ ResumeInsightsRan
    /\ Len(resumes_file) = 2
    /\ ResumesWhere(HasMidWord) = 2
    /\ ResumesWhere(HasSeniorWord) = 1
    /\ resp.body.experience_levels["Senior"] = 1
    /\ resp.body.experience_levels["Mid"] = 1

\* the job types a posting can be given
job_type_choices == {"Full-time", "Part-time", "Contract", "Remote"}

\* C18: every distribution mapping of a snapshot has every bucket of its
\* classification as a key, those with count zero included, whatever the
\* store holds.
C18_AllBucketsPresent ==
    /\ ResumeInsightsRan =>
          DOMAIN resp.body.experience_levels = {"Entry", "Mid", "Senior"}
    /\ JobInsightsRan =>
          job_type_choices \subseteq DOMAIN resp.body.job_types

FirstIndex(labels, x) ==
    CHOOSE i \in 1..Len(labels) :
        labels[i] = x /\ \A j \in 1..(i - 1) : labels[j] # x

\* `list` is a frequency list of the labels: at most DisplayLimit distinct
\* labels, by non-increasing count, equal counts by first occurrence, and
\* no label left out that occurs more often than a listed one.
FrequencyList(list, labels) ==
    /\ Len(list) <= DisplayLimit
    /\ \A i \in 1..Len(list) : count_of(labels, list[i]) > 0
    /\ \A i, j \in 1..Len(list) : i < j =>
        /\ list[i] # list[j]
        /\ count_of(labels, list[i]) >= count_of(labels, list[j])
        /\ count_of(labels, list[i]) = count_of(labels, list[j]) =>
              FirstIndex(labels, list[i]) < FirstIndex(labels, list[j])
    /\ \A k \in 1..Len(labels) :
          (\A i \in 1..Len(list) : list[i] # labels[k]) =>
              \A i \in 1..Len(list) :
                  count_of(labels, labels[k]) <= count_of(labels, list[i])

AllResumeSkills ==
    extend_all([i \in 1..Len(resumes_file) |-> resumes_file[i].skills])
AllJobSkills ==
    extend_all([i \in 1..Len(jobs_file) |->
                   extract_skills_from_job(jobs_file[i].description,
                                           jobs_file[i].requirements)])
AllCompanies == [i \in 1..Len(jobs_file) |-> jobs_file[i].company]
AllLocations == [i \in 1..Len(jobs_file) |-> jobs_file[i].location]

\* C19: top_skills, top_companies and popular_skills are frequency lists
\* of the skills of all resumes, the companies of all postings and the
\* vocabulary skills of all postings.
C19_FrequencyLists ==
    /\ ResumeInsightsRan => FrequencyList(resp.body.top_skills, AllResumeSkills)
    /\ JobInsightsRan =>
        /\ FrequencyList(resp.body.top_companies, AllCompanies)
        /\ FrequencyList(resp.body.popular_skills, AllJobSkills)

\* Two resumes with more than ten skills between them: top_skills has ten
\* entries, starts with the two skills both resumes name, in first-seen
\* order that is not the order of the longer list, and leaves a skill out.
C19_Witness ==
    /\ ResumeInsightsRan
    /\ Len(resumes_file) = 2
    /\ Len(resp.body.top_skills) = DisplayLimit
    /\ resp.body.top_skills[1] = "Go"
    /\ resp.body.top_skills[2] = "SQL"
    /\ count_of(AllResumeSkills, "Go") = 2
    /\ count_of(AllResumeSkills, "SQL") = 2
    /\ \E k \in 1..Len(AllResumeSkills) :
          \A i \in 1..DisplayLimit : resp.body.top_skills[i] # AllResumeSkills[k]

\* C20: locations is a frequency list of the locations of all postings (so
\* one store always gives one list).
C20_LocationsByCount ==
    JobInsightsRan => FrequencyList(resp.body.locations, AllLocations)

ChatRan == resp.op = "handle_chat_query"

\* No keyword of any top-level rule of the user's role occurs in the query.
NoRuleKeyword ==
    IF req.user_type = "job_seeker"
    THEN /\ ~Mentions(seeker_job_words)
         /\ ~Mentions(seeker_skill_words)
         /\ ~Mentions(seeker_market_words)
         /\ ~Mentions(seeker_resume_words)
    ELSE /\ ~Mentions(employer_candidate_words)
         /\ ~Mentions(employer_skill_words)
         /\ ~Mentions(employer_job_words)

HelpReply ==
    /\ DOMAIN resp.body = {"response", "data", "suggestions"}
    /\ resp.body.response =
         [text |-> "I'm here to help! I can assist with job matching, skill analysis, and market insights. What would you like to know?"]
    /\ Len(resp.body.suggestions) = 3

\* A query of a seeker or a poster without a rule keyword is routed to
\* general / help and answered with the help narrative and three suggestions.
UnroutableGetsHelp ==
    (ChatRan /\ req.user_type \in {"job_seeker", "employer"} /\ NoRuleKeyword)
        => /\ resp.intent_data = [intent |-> "general", type |-> "help"]
           /\ HelpReply

\* C13: a query of a seeker or a poster with no keyword of any top-level
\* rule of the role is routed to general / help and answered with the help
\* narrative and three suggestions, and only such queries are routed to
\* general.
C13_GeneralOnlyUnroutable ==
    /\ UnroutableGetsHelp
    /\ (ChatRan /\ req.user_type \in {"job_seeker", "employer"}) =>
          (resp.intent_data.intent = "general" => NoRuleKeyword)

SkillsExtracted == resp.op = "extract_skills_from_job"

\* the lower-cased text searched: the description, a space, and the
\* requirements joined by spaces
SearchedText == lower(req.description \o <<" ">> \o join(req.requirements))

\* C21: extract_skills_from_job returns, without duplicates, the title-cased
\* form of exactly the vocabulary terms that occur in the lower-cased text
\* of the description followed by the space-joined requirements.
C21_ExactlyVocabularyTermsFound ==
    SkillsExtracted =>
        /\ \A i, j \in 1..Len(resp.body) : i # j => resp.body[i] # resp.body[j]
        /\ \A k \in 1..Len(common_skills) :
              Contains(SearchedText, common_skills[k])
                  <=> \E i \in 1..Len(resp.body) :
                          resp.body[i] = title(common_skills[k])
        /\ \A i \in 1..Len(resp.body) :
              \E k \in 1..Len(common_skills) :
                  resp.body[i] = title(common_skills[k])

\* "digital" with requirements "machine", "learning": Git is found inside a
\* word and Machine Learning across two requirements.
C21_Witness ==
    /\ SkillsExtracted
    /\ req.description = <<"d","i","g","i","t","a","l">>
    /\ req.requirements = <<<<"m","a","c","h","i","n","e">>,
                            <<"l","e","a","r","n","i","n","g">>>>
    /\ resp.body = <<<<"G","i","t">>,
                     <<"M","a","c","h","i","n","e"," ",
                       "L","e","a","r","n","i","n","g">>>>

FindJobsRouted ==
    /\ ChatRan
    /\ req.user_type = "job_seeker"
    /\ resp.intent_data.intent = "find_jobs"
FindCandidatesRouted ==
    /\ ChatRan
    /\ req.user_type = "employer"
    /\ resp.intent_data.intent = "find_candidates"

\* what the match call of the routed query returns when the server answers
JobMatchesOfQuery ==
    match_jobs_response(
        [resume_text |-> get(req.context, "resume_text", <<>>),
         top_k |-> ChatTopK, exclude_employer_id |-> NoOwner])
CandidateMatchesOfQuery ==
    match_candidates_response(
        [job_description |->
             IF DOMAIN req.context # {}
             THEN get(req.context, "job_description", <<>>)
             ELSE <<"s","o","f","t","w","a","r","e"," ",
                    "d","e","v","e","l","o","p","e","r">>,
         top_k |-> ChatTopK, exclude_user_id |-> req.user_id])

\* C22: for find_jobs / find_candidates, when the matching call returns
\* zero results the reply is the no-matches narrative with its own
\* suggestions, not the "I found N ..." narrative.
C22_ZeroResultsNoMatchesNarrative ==
    /\ (/\ FindJobsRouted
        /\ req.job_server_up
        /\ JobMatchesOfQuery.matches = <<>>) =>
          /\ resp.body.response =
               [text |-> "I couldn't find any job matches right now. Try uploading your resume first!"]
          /\ resp.body.suggestions =
               <<"Upload my resume", "View market trends", "Get career advice">>
    /\ (/\ FindCandidatesRouted
        /\ req.resume_server_up
        /\ CandidateMatchesOfQuery.matches = <<>>) =>
          /\ resp.body.response =
               [text |-> "No matching candidates found. Try posting a job description first!"]
          /\ resp.body.suggestions =
               <<"Post a new job", "View talent market insights",
                 "Adjust job requirements">>

InsightNarratives ==
    {"Based on current market trends, here are the most in-demand skills:",
     "Current Job Market Overview:",
     "Talent Pool Analysis:"}

\* C23: a query of a seeker or a poster routed to job_stats,
\* candidate_stats, skill_analysis or market_insights is answered with an
\* insight narrative and the snapshot it was rendered from, never with the
\* help narrative.
C23_InsightIntentsGetInsightNarrative ==
    (/\ ChatRan
     /\ resp.intent_data.intent \in
           {"job_stats", "candidate_stats", "skill_analysis", "market_insights"})
        => /\ resp.body.response.text \in InsightNarratives
           /\ resp.body.data # NoData
           /\ ~HelpReply

\* the servers that handle_chat_query calls for the routed query
CallsJobServer ==
    /\ ChatRan
    /\ req.user_type = "job_seeker"
    /\ resp.intent_data.intent \in {"find_jobs", "skill_analysis", "market_insights"}
CallsResumeServer ==
    /\ ChatRan
    /\ \/ /\ req.user_type = "job_seeker"
          /\ resp.intent_data.intent \in {"find_jobs", "skill_analysis"}
       \/ /\ req.user_type = "employer"
          /\ resp.intent_data.intent \in {"find_candidates", "skill_analysis"}

\* C24: when a call that the routed query makes to the resume server or to
\* the job server fails, the reply is a structured error, not a ChatResponse
\* with a narrative and suggestions.
C24_FailureGivesStructuredError ==
    (\/ CallsJobServer /\ ~req.job_server_up
     \/ CallsResumeServer /\ ~req.resume_server_up)
        => /\ "error" \in DOMAIN resp.body
           /\ "suggestions" \notin DOMAIN resp.body

\* C25: a query with an empty text is rejected with a structured rejection
\* and gets no narrative reply.
C25_EmptyQueryRejected ==
    (ChatRan /\ join(req.words) = <<>>)
        => /\ "error" \in DOMAIN resp.body
           /\ "response" \notin DOMAIN resp.body

C27_OnlyOwnEntryChanges ==
    [][(resp'.op = "upload_resume" /\ "resume_id" \in DOMAIN resp'.body) =>
          LET X == req'.user_id
              others == {i \in 1..Len(resumes_file) : resumes_file[i].user_id # X}
              n == Len(resumes_file')
          IN  /\ n = Cardinality(others) + 1
              /\ resumes_file'[n].user_id = X
              /\ resumes_file'[n].id = resp'.body.resume_id
              /\ \A i \in others :
                    \E j \in 1..(n - 1) : resumes_file'[j] = resumes_file[i]
              /\ \A i1, i2 \in others : i1 < i2 =>
                    \E j1, j2 \in 1..(n - 1) :
                        /\ j1 < j2
                        /\ resumes_file'[j1] = resumes_file[i1]
                        /\ resumes_file'[j2] = resumes_file[i2]]_vars

\* The store held the resumes of u2, u1 and u3 in this order, and u1
\* uploaded again: u2 and u3 are kept in their order and u1's new resume is
\* last.
C27_Witness ==
    /\ resp.op = "upload_resume"
    /\ req.user_id = "u1"
    /\ uuids = 1
    /\ Len(resumes_file) = 3
    /\ resumes_file[1].user_id = "u2"
    /\ resumes_file[1].id = MaxRecords + 1
    /\ resumes_file[2].user_id = "u3"
    /\ resumes_file[2].id = MaxRecords + 3
    /\ resumes_file[3] = lastUpload["u1"]

----------------------------------------------------------------------------
(* C28 *)

IssuedTokens == {issued.logins[i].session_token : i \in 1..Len(issued.logins)}

Distinct(s) == \A i, j \in 1..Len(s) : i # j => s[i] # s[j]

\* the sessions are exactly the successful logins, each with its user
SessionsAreTheLogins ==
    /\ DOMAIN sessions = IssuedTokens
    /\ \A i \in 1..Len(issued.logins) :
           sessions[issued.logins[i].session_token] = issued.logins[i].user

\* the answer of the validate_session call that ran last
ValidationAnswersFromLogins ==
    resp.op = "validate_session" =>
        /\ resp.body.success <=> req.session_token \in IssuedTokens
        /\ resp.body.success =>
               \A i \in 1..Len(issued.logins) :
                   issued.logins[i].session_token = req.session_token
                       => resp.body.user = issued.logins[i].user

IdsAndTokensDistinct ==
    /\ Distinct(issued.user_ids)
    /\ Distinct([i \in 1..Len(issued.logins) |-> issued.logins[i].session_token])

\* a register_user or login_user call that answers success: False
Rejected ==
    /\ resp'.op \in {"register_user", "login_user"}
    /\ ~resp'.body.success

\* C28: in MockAuth, after any sequence of register_user, login_user and
\* validate_session calls, validate_session(t) succeeds exactly when t was
\* returned by an earlier successful login_user and then reports the user of
\* that login; a rejected registration or login leaves users and sessions
\* unchanged; the user ids and the session tokens issued are pairwise distinct.
C28_SessionsIssuedByLogin ==
    [][/\ SessionsAreTheLogins'
       /\ ValidationAnswersFromLogins'
       /\ IdsAndTokensDistinct'
       /\ Rejected => UNCHANGED <<users, sessions>>]_vars

\* both users registered, a login rejected for a wrong password in between,
\* user_1 logged in twice and user_2 once, and the token of the second login
\* validated and reported as user_1's
C28_Witness ==
    /\ resp.op = "validate_session"
    /\ resp.body.success
    /\ Len(issued.user_ids) = 2
    /\ Len(issued.logins) = 3
    /\ issued.logins[1].user.user_id = "user_1"
    /\ issued.logins[2].user.user_id = "user_1"
    /\ issued.logins[3].user.user_id = "user_2"
    /\ req.session_token = issued.logins[2].session_token
    /\ req.session_token = "session_user_1_1"
    /\ resp.body.user.user_id = "user_1"

====
